---- MODULE Spec2Model ----
(***************************************************************************)
(* Model of .scripts/eval_agent.py: reconstruction of conversation records *)
(* from telemetry entries, the evaluation-set exporter and loader, the     *)
(* orchestration pass over metric families, and the merge of a pass's      *)
(* consolidated score table into a previously exported CSV.                *)
(*                                                                         *)
(* Python values are encoded uniformly so that TLC can compare them:       *)
(*   a text is a sequence of string tokens ("" is << >>);                  *)
(*   a value is [t, s, d]: t = "str" with text s, t = "dict" with mapping  *)
(*   d (string key -> text), or t = "none" for None.                       *)
(* A payload is a function from its present keys to values, so that        *)
(* `key in payload` is `key \in DOMAIN payload`.                           *)
(***************************************************************************)
EXTENDS Integers, Sequences, FiniteSets, TLC

VARIABLES
    pc,                        \* position of the running handler
    entries,                   \* entries returned by list_entries, in arrival order
    agent_df, simple_df,       \* the two record tables of a pass / of get_logs
    evalset_files,             \* the eval_sets directory: file name -> content
    eval_df,                   \* table built by the --use-evalset-files loader
    all_time,                  \* the pass's all_time argument
    from_evalset,              \* TRUE when the pass was given eval_df
    last_run,                  \* value read by get_last_run_timestamp, or NoTime
    timestampFile,             \* content of last_run_timestamp.txt, or NoTime
    now,                       \* the clock (datetime.utcnow)
    groups,                    \* metric types still to visit in the groupby loop
    all_summary_metrics_data,  \* list of (summary, metric_type)
    all_metrics_dfs,           \* list of per-record score tables
    final_combined_df,         \* the long-form table, or NoTable
    csvFile,                   \* the CSV at --output-csv-path, or NoTable
    session_filter,            \* the filter_session_id argument of get_logs
    jobs,                      \* calls made to the scoring collaborator, in order
    failed,                    \* collaborators whose call raised in this pass
    file_at_start,             \* timestampFile when the pass began
    collected_at,              \* clock at the list_entries call, or NoTime
    ts_reads, ts_writes        \* accesses to the timestamp file in this pass

vars == << pc, entries, agent_df, simple_df, evalset_files, eval_df, all_time,
           from_evalset, last_run, timestampFile, now, groups,
           all_summary_metrics_data, all_metrics_dfs, final_combined_df,
           csvFile, session_filter, jobs, failed, file_at_start, collected_at,
           ts_reads,
           ts_writes >>

logVars   == << entries, agent_df, simple_df, session_filter >>
fileVars  == << evalset_files, eval_df >>
passVars  == << all_time, from_evalset, last_run, timestampFile, now, groups,
                all_summary_metrics_data, all_metrics_dfs, jobs, failed,
                file_at_start, collected_at, ts_reads, ts_writes >>
mergeVars == << final_combined_df, csvFile >>

(***************************************************************************)
(* Bounds of the model.                                                    *)
(***************************************************************************)
MaxEntries == 5        \* entries in the log listing (pairing)
MaxExportEntries == 4  \* entries in the log listing (export and reload)
MaxNewRows == 2        \* rows of a pass's consolidated table (merge-on-export)
MaxFiles == 2          \* evaluation-set files read by one pass
MaxPassEntries == 2    \* entries returned to one log-driven pass
MaxTicks == 2          \* ticks of the clock
MaxIngestEntries == 4  \* entries in the log listing (ingestion of any shape)

(***************************************************************************)
(* Python values.                                                          *)
(***************************************************************************)
EmptyDict == [k \in {} |-> << >>]
Str(s)  == [t |-> "str",  s |-> s,    d |-> EmptyDict]
Dict(m) == [t |-> "dict", s |-> << >>, d |-> m]
None    == [t |-> "none", s |-> << >>, d |-> EmptyDict]

\* bool(v)
Truthy(v) ==
    CASE v.t = "str"  -> v.s # << >>
      [] v.t = "dict" -> DOMAIN v.d # {}
      [] OTHER        -> FALSE

\* a or b
Or(a, b) == IF Truthy(a) THEN a ELSE b

\* payload.get(key) and payload.get(key, default)
GetOr(payload, key, default) ==
    IF key \in DOMAIN payload THEN payload[key] ELSE default
Get(payload, key) == GetOr(payload, key, None)

\* dict.get(key, default) on the mapping of a "dict" value: the entries are texts
DictGetOr(v, key, default) ==
    IF key \in DOMAIN v.d THEN Str(v.d[key]) ELSE default

\* str.replace(old, ""), old being one token: every occurrence is removed
RECURSIVE Remove(_, _)
Remove(s, tok) ==
    IF s = << >> THEN << >>
    ELSE IF Head(s) = tok THEN Remove(Tail(s), tok)
    ELSE << Head(s) >> \o Remove(Tail(s), tok)

\* str(i) for a non-negative integer
Digit == [i \in 0..9 |-> CASE i = 0 -> "0" [] i = 1 -> "1" [] i = 2 -> "2"
                           [] i = 3 -> "3" [] i = 4 -> "4" [] i = 5 -> "5"
                           [] i = 6 -> "6" [] i = 7 -> "7" [] i = 8 -> "8"
                           [] OTHER -> "9"]
RECURSIVE IntStr(_)
IntStr(i) == IF i < 10 THEN << Digit[i] >>
             ELSE IntStr(i \div 10) \o << Digit[i % 10] >>

Min(a, b) == IF a < b THEN a ELSE b

\* the distinct values of the sequence keys, in order of first appearance
\* (insertion order of a Python dict, order of groupby keys as they come)
KeysInOrder(keys) ==
    LET F[i \in 0..Len(keys)] ==
            IF i = 0 THEN << >>
            ELSE LET prev == F[i - 1]
                 IN  IF \E j \in 1..Len(prev) : prev[j] = keys[i]
                     THEN prev ELSE Append(prev, keys[i])
    IN  F[Len(keys)]

\* concatenation of the sequences of seqs, in order
Concat(seqs) ==
    LET F[i \in 0..Len(seqs)] ==
            IF i = 0 THEN << >> ELSE F[i - 1] \o seqs[i]
    IN  F[Len(seqs)]

(***************************************************************************)
(* Tables.  A DataFrame is the sequence of its rows; None and the empty    *)
(* DataFrame are both << >>: every use in the code tests them together     *)
(* (`df is not None and not df.empty`).                                    *)
(***************************************************************************)
NoTable == << >>

\* mutant: no placeholder for an entry of another shape
Normalize_NoPlaceholder(entry) ==
    CASE entry.shape = "dict"         -> entry.payload
      [] entry.shape = "str"          -> ("message" :> Str(entry.text))
      [] entry.shape = "json_payload" -> entry.payload
      [] entry.shape = "text_payload" -> ("message" :> Str(entry.text))
      [] OTHER -> EmptyDict

(***************************************************************************)
(* get_logs_for_evaluation: normalization of one entry.                    *)
(* An entry is [timestamp, shape, payload, text]: shape tells which of the *)
(* attributes the isinstance/hasattr chain finds.                          *)
(***************************************************************************)
Normalize(entry) ==
    CASE entry.shape = "dict"         -> entry.payload
      [] entry.shape = "str"          -> ("message" :> Str(entry.text))
      [] entry.shape = "json_payload" -> entry.payload
      [] entry.shape = "text_payload" -> ("message" :> Str(entry.text))
      [] OTHER -> ("message" :> Str(<< "Unsupported log entry type" >>))

\* the filter_session_id test: TRUE when the entry is skipped
FilteredOut(payload, filter_session_id) ==
    /\ Truthy(filter_session_id)
    /\ Get(payload, "session_id") # filter_session_id
    /\ Get(payload, "request_id") # filter_session_id

Item(entry) == [entry |-> entry, payload |-> Normalize(entry)]

IsStructuredLog(item) ==
    Get(item.payload, "log_type")
        \in { Str(<< "user_message" >>), Str(<< "final_answer" >>) }

\* the items appended to agent_sessions_raw_logs (any session)
IsAgentRaw(item) ==
    IsStructuredLog(item) /\ Truthy(Get(item.payload, "session_id"))

\* the items appended to simple_sessions_raw_logs (any request)
IsSimpleRaw(item) ==
    /\ ~ IsStructuredLog(item)
    /\ Truthy(Get(item.payload, "request_id"))
    /\ "prompt" \in DOMAIN item.payload
    /\ "response" \in DOMAIN item.payload

\* sorted(raw_logs, key=timestamp): Python's sort is stable
RECURSIVE InsertByTimestamp(_, _)
InsertByTimestamp(x, s) ==
    IF s = << >> THEN << x >>
    ELSE IF x.entry.timestamp < Head(s).entry.timestamp THEN << x >> \o s
    ELSE << Head(s) >> \o InsertByTimestamp(x, Tail(s))

\* mutant: the bucket is left in arrival order
SortByTimestamp_ArrivalOrder(s) == s

RECURSIVE SortByTimestamp(_)
SortByTimestamp(s) ==
    IF s = << >> THEN << >>
    ELSE InsertByTimestamp(s[Len(s)], SortByTimestamp(SubSeq(s, 1, Len(s) - 1)))

MiddlewarePrefix == "ADK Web Log: Middleware triggered for prompt: "

\* the record of the i-th pair of one session, << >> when it is skipped
AgentPairRows(session_id, user_payload, final_answer_payload, i) ==
    LET user_content ==
            Or(Get(user_payload, "prompt"),
               Str(Remove(GetOr(user_payload, "message", Str(<< >>)).s,
                          MiddlewarePrefix)))
        agent_response == Get(final_answer_payload, "final_answer")
        reference == Get(final_answer_payload, "ground_truth")
        ground_truth_payload ==
            GetOr(final_answer_payload, "ground_truth", Dict(EmptyDict))
        metric_type_from_payload ==
            DictGetOr(ground_truth_payload, "metric_type",
                      Str(<< "default_agent_metric" >>))
    IN  IF Truthy(user_content) /\ Truthy(agent_response)
        THEN << [ eval_id        |-> Str(session_id.s \o << "-" >> \o IntStr(i)),
                  session_id     |-> session_id,
                  user_content   |-> user_content,
                  agent_response |-> agent_response,
                  reference      |-> reference,
                  metric_type    |-> metric_type_from_payload,
                  metric_value   |-> Str(<< >>),
                  ground_truth   |-> ground_truth_payload ] >>
        ELSE << >>

\* the records of one session bucket
SessionRows(session_id, agent_raw) ==
    LET raw_logs == SelectSeq(agent_raw,
                        LAMBDA it : Get(it.payload, "session_id") = session_id)
        sorted_raw_logs == SortByTimestamp(raw_logs)
        user_messages == SelectSeq(sorted_raw_logs,
            LAMBDA it : Get(it.payload, "log_type") = Str(<< "user_message" >>))
        final_answers == SelectSeq(sorted_raw_logs,
            LAMBDA it : Get(it.payload, "log_type") = Str(<< "final_answer" >>))
        n == Min(Len(user_messages), Len(final_answers))
    IN  Concat([k \in 1..n |->
                  AgentPairRows(session_id, user_messages[k].payload,
                                final_answers[k].payload, k - 1)])

\* the last-seen-wins scan over one request bucket
SimpleScan(sorted_raw_logs) ==
    LET F[i \in 0..Len(sorted_raw_logs)] ==
            IF i = 0
            THEN [prompt |-> Str(<< >>), response |-> Str(<< >>),
                  reference |-> Str(<< >>)]
            ELSE LET prev == F[i - 1]
                     payload == sorted_raw_logs[i].payload
                 IN  [prompt    |-> GetOr(payload, "prompt", prev.prompt),
                      response  |-> GetOr(payload, "response", prev.response),
                      reference |-> GetOr(payload, "ground_truth", prev.reference)]
    IN  F[Len(sorted_raw_logs)]

\* the records of one request bucket
RequestRows(request_id, simple_raw) ==
    LET raw_logs == SelectSeq(simple_raw,
                        LAMBDA it : Get(it.payload, "request_id") = request_id)
        last == SimpleScan(SortByTimestamp(raw_logs))
    IN  IF Truthy(last.prompt) /\ Truthy(last.response)
        THEN << [ eval_id        |-> request_id,
                  session_id     |-> request_id,
                  user_content   |-> last.prompt,
                  agent_response |-> last.response,
                  reference      |-> last.reference,
                  metric_type    |-> Str(<< "simple" >>),
                  metric_value   |-> Str(<< >>) ] >>
        ELSE << >>

\* the items that pass the filter_session_id test, in arrival order
KeptItems(es, filter_session_id) ==
    SelectSeq([i \in 1..Len(es) |-> Item(es[i])],
              LAMBDA it : ~ FilteredOut(it.payload, filter_session_id))

\* get_logs_for_evaluation(...)[0]
GetAgentDf(es, filter_session_id) ==
    LET agent_raw == SelectSeq(KeptItems(es, filter_session_id), IsAgentRaw)
        sessions == KeysInOrder([k \in 1..Len(agent_raw) |->
                                    Get(agent_raw[k].payload, "session_id")])
    IN  Concat([k \in 1..Len(sessions) |-> SessionRows(sessions[k], agent_raw)])

\* get_logs_for_evaluation(...)[1]
GetSimpleDf(es, filter_session_id) ==
    LET simple_raw == SelectSeq(KeptItems(es, filter_session_id), IsSimpleRaw)
        requests == KeysInOrder([k \in 1..Len(simple_raw) |->
                                    Get(simple_raw[k].payload, "request_id")])
    IN  Concat([k \in 1..Len(requests) |-> RequestRows(requests[k], simple_raw)])

(***************************************************************************)
(* The telemetry entries the ingestion collaborator can return.            *)
(***************************************************************************)
Entry(ts, payload) ==
    [timestamp |-> ts, shape |-> "dict", payload |-> payload, text |-> << >>]

S1 == Str(<< "s1" >>)
S2 == Str(<< "s2" >>)
R1 == Str(<< "r1" >>)
UserLog  == Str(<< "user_message" >>)
FinalLog == Str(<< "final_answer" >>)

StructuredPool ==
    { Entry(1, ("session_id" :> S1) @@ ("log_type" :> UserLog)
                 @@ ("prompt" :> Str(<< "p1" >>))),
      Entry(3, ("session_id" :> S1) @@ ("log_type" :> UserLog)
                 @@ ("message" :> Str(<< MiddlewarePrefix, "p2" >>))),
      Entry(3, ("session_id" :> S1) @@ ("log_type" :> UserLog)
                 @@ ("prompt" :> Str(<< >>))),
      Entry(2, ("session_id" :> S1) @@ ("log_type" :> FinalLog)
                 @@ ("final_answer" :> Str(<< "a1" >>))
                 @@ ("ground_truth" :> Dict(("metric_type" :> << "rouge" >>)))),
      Entry(4, ("session_id" :> S1) @@ ("log_type" :> FinalLog)
                 @@ ("final_answer" :> Str(<< "a2" >>))),
      Entry(5, ("session_id" :> S1) @@ ("log_type" :> FinalLog)
                 @@ ("final_answer" :> Str(<< >>))
                 @@ ("ground_truth" :> Dict(EmptyDict))),
      Entry(2, ("session_id" :> S2) @@ ("log_type" :> UserLog)
                 @@ ("prompt" :> Str(<< "p4" >>))),
      Entry(1, ("session_id" :> S2) @@ ("log_type" :> FinalLog)
                 @@ ("final_answer" :> Str(<< "a4" >>))
                 @@ ("ground_truth" :> Dict(("metric_type" :> << "MANUAL" >>)))) }

SimplePool ==
    { Entry(1, ("request_id" :> R1) @@ ("prompt" :> Str(<< "q1" >>))
                 @@ ("response" :> Str(<< "b1" >>))
                 @@ ("ground_truth" :> Str(<< "g1" >>))),
      Entry(2, ("request_id" :> R1) @@ ("response" :> Str(<< "b2" >>))) }

EntryPool == StructuredPool \cup SimplePool

SessionFilters == { None, S1 }

Range(s) == { s[i] : i \in 1..Len(s) }

(***************************************************************************)
(* Values of the variables a specification does not use.                   *)
(***************************************************************************)
NoTime == -1

\* timedelta(days=1), in ticks of the clock
Day == 5

LogsIdle ==
    /\ entries = << >> /\ agent_df = NoTable /\ simple_df = NoTable
    /\ session_filter = None
NoFiles == [name \in {} |-> << >>]
FilesIdle == evalset_files = NoFiles /\ eval_df = NoTable
PassIdle ==
    /\ all_time = FALSE /\ from_evalset = FALSE /\ last_run = NoTime
    /\ timestampFile = NoTime /\ now = Day /\ groups = << >>
    /\ all_summary_metrics_data = << >> /\ all_metrics_dfs = << >>
    /\ jobs = << >> /\ failed = {} /\ file_at_start = NoTime
    /\ collected_at = NoTime
    /\ ts_reads = 0 /\ ts_writes = 0
MergeIdle == final_combined_df = NoTable /\ csvFile = NoTable

(***************************************************************************)
(* Reconstruction of records from a listing of entries.                    *)
(***************************************************************************)
\* one more entry of the listing (`for entry in list_entries(...)`); the
\* collaborator returns the entries in any order
AppendEntry(e, max) ==
    /\ pc = "ingest"
    /\ Len(entries) < max
    /\ e \notin Range(entries)
    /\ entries' = Append(entries, e)
    /\ UNCHANGED << pc, agent_df, simple_df, session_filter,
                    fileVars, passVars, mergeVars >>

\* get_logs_for_evaluation(None, filter_session_id) over the whole listing
GetLogsForEvaluation(filter_session_id) ==
    /\ pc = "ingest"
    /\ session_filter' = filter_session_id
    /\ agent_df' = GetAgentDf(entries, filter_session_id)
    /\ simple_df' = GetSimpleDf(entries, filter_session_id)
    /\ pc' = "fetched"
    /\ UNCHANGED << entries, fileVars, passVars, mergeVars >>

InitPair == pc = "ingest" /\ LogsIdle /\ FilesIdle /\ PassIdle /\ MergeIdle

NextPair ==
    \/ \E e \in EntryPool : AppendEntry(e, MaxEntries)
    \/ \E f \in SessionFilters : GetLogsForEvaluation(f)

SpecPair == InitPair /\ [][NextPair]_vars

(***************************************************************************)
(* Pairing claims.  The expected records are stated from the listing by    *)
(* counting, not by running the reconstruction.                            *)
(***************************************************************************)
PayloadAt(j) == Normalize(entries[j])
KeptIdx == { j \in 1..Len(entries) : ~ FilteredOut(PayloadAt(j), session_filter) }

\* entry k comes before entry j once the listing is sorted by timestamp
\* (entries of equal timestamp keep their arrival order)
ComesBefore(k, j) ==
    \/ entries[k].timestamp < entries[j].timestamp
    \/ entries[k].timestamp = entries[j].timestamp /\ k < j

\* the member of S at 0-based position i of the sorted order
NthOf(S, i) == CHOOSE j \in S : Cardinality({ k \in S : ComesBefore(k, j) }) = i

StructuredIdx(sid, log_type) ==
    { j \in KeptIdx : /\ Get(PayloadAt(j), "session_id") = sid
                      /\ Get(PayloadAt(j), "log_type") = log_type }

SessionsSeen ==
    { Get(PayloadAt(j), "session_id") : j \in KeptIdx } \ { None, Str(<< >>) }

PromptTextOf(payload) ==
    IF Truthy(Get(payload, "prompt")) THEN Get(payload, "prompt")
    ELSE IF "message" \in DOMAIN payload
         THEN Str(Remove(payload["message"].s, MiddlewarePrefix))
         ELSE Str(<< >>)

RecordId(sid, i) == Str(sid.s \o << "-" >> \o IntStr(i))

RowsWithId(df, id) == { r \in 1..Len(df) : df[r].eval_id = id }

\* C4: for every session bucket and arrival order, the i-th user_message in
\* timestamp order is paired with the i-th final_answer for i < min(U, F);
\* a pair with non-empty prompt and response yields exactly one record, with
\* record_id "<session_id>-<i>", and nothing else yields a record.
C4_StructuredPairing ==
    pc = "fetched" =>
      /\ \A sid \in SessionsSeen :
           LET U == StructuredIdx(sid, UserLog)
               F == StructuredIdx(sid, FinalLog)
           IN  \A i \in 0..Len(entries) :
                 LET rows == RowsWithId(agent_df, RecordId(sid, i))
                 IN  IF i < Min(Cardinality(U), Cardinality(F))
                     THEN LET prompt == PromptTextOf(PayloadAt(NthOf(U, i)))
                              response ==
                                  Get(PayloadAt(NthOf(F, i)), "final_answer")
                          IN  IF Truthy(prompt) /\ Truthy(response)
                              THEN /\ Cardinality(rows) = 1
                                   /\ \A r \in rows :
                                        /\ agent_df[r].user_content = prompt
                                        /\ agent_df[r].agent_response = response
                                        /\ agent_df[r].session_id = sid
                              ELSE rows = {}
                     ELSE rows = {}
      /\ \A r \in 1..Len(agent_df) :
           \E sid \in SessionsSeen, i \in 0..Len(entries) :
               agent_df[r].eval_id = RecordId(sid, i)

\* C4 witness: three user messages and two final answers of one session have
\* been reconstructed into exactly two records, indices 0 and 1.
C4_Witness ==
    /\ pc = "fetched"
    /\ Cardinality(StructuredIdx(S1, UserLog)) = 3
    /\ Cardinality(StructuredIdx(S1, FinalLog)) = 2
    /\ Len(agent_df) = 2
    /\ agent_df[1].eval_id = RecordId(S1, 0)
    /\ agent_df[2].eval_id = RecordId(S1, 1)

RequestIdx(rid) ==
    { j \in KeptIdx : /\ Get(PayloadAt(j), "request_id") = rid
                      /\ ~ IsStructuredLog(Item(entries[j])) }

RequestsSeen ==
    { Get(PayloadAt(j), "request_id") : j \in KeptIdx } \ { None, Str(<< >>) }

\* C5 (as claimed): when two events share a request_id and the later one in
\* timestamp order contains only a response field, the emitted record has the
\* later event's response and the earlier event's prompt and reference.
C5_SimpleLastSeenWins ==
    pc = "fetched" =>
      \A rid \in RequestsSeen :
        \A j, k \in RequestIdx(rid) :
          ( /\ RequestIdx(rid) = { j, k }
            /\ entries[j].timestamp < entries[k].timestamp
            /\ DOMAIN PayloadAt(k) = { "request_id", "response" }
            /\ Truthy(PayloadAt(k)["response"])
            /\ { "prompt", "response" } \subseteq DOMAIN PayloadAt(j)
            /\ Truthy(PayloadAt(j)["prompt"]) )
          => \E r \in 1..Len(simple_df) :
               /\ simple_df[r].session_id = rid
               /\ simple_df[r].agent_response = PayloadAt(k)["response"]
               /\ simple_df[r].user_content = PayloadAt(j)["prompt"]
               /\ simple_df[r].reference =
                      GetOr(PayloadAt(j), "ground_truth", Str(<< >>))

(***************************************************************************)
(* Merge-on-export (main, --use-evalset-files with --output-csv-path).     *)
(* A score row is [session_id, metric_type, metric_value]; in the CSV the  *)
(* id column is eval_id.  Metric values are kept as their CSV text; NaN is *)
(* the empty text, which is how to_csv writes it and read_csv reads it.    *)
(***************************************************************************)
NaN == << >>

ScoreRow(id, type, value) ==
    [session_id |-> id, metric_type |-> type, metric_value |-> value]

\* df.drop_duplicates(subset=[key], keep="first")
DropDuplicates(df, key) ==
    LET F[i \in 0..Len(df)] ==
            IF i = 0 THEN << >>
            ELSE LET prev == F[i - 1]
                 IN  IF \E j \in 1..Len(prev) : prev[j][key] = df[i][key]
                     THEN prev ELSE Append(prev, df[i])
    IN  F[Len(df)]

\* df.rename(columns={"session_id": "eval_id"})
RenameSessionId(df) ==
    [i \in 1..Len(df) |-> [eval_id      |-> df[i].session_id,
                           metric_type  |-> df[i].metric_type,
                           metric_value |-> df[i].metric_value]]

\* series_new.fillna(series_original), one cell
FillNa(new, original) == IF new = NaN THEN original ELSE new

\* pd.merge(original_df, new_unique, on="eval_id", how="left") followed by the
\* two fillna assignments and the drop of the suffixed columns
LeftMergeFill(original_df, new_unique) ==
    Concat([i \in 1..Len(original_df) |->
        LET o == original_df[i]
            matches == SelectSeq(new_unique, LAMBDA n : n.eval_id = o.eval_id)
        IN  IF matches = << >>
            THEN << [eval_id      |-> o.eval_id,
                     metric_type  |-> FillNa(NaN, o.metric_type),
                     metric_value |-> FillNa(NaN, o.metric_value)] >>
            ELSE [k \in 1..Len(matches) |->
                    [eval_id      |-> o.eval_id,
                     metric_type  |->
                         FillNa(matches[k].metric_type, o.metric_type),
                     metric_value |->
                         FillNa(matches[k].metric_value, o.metric_value)]]])

\* the table written to --output-csv-path
MergedCsv(csv, combined) ==
    LET original_df == DropDuplicates(csv, "eval_id")
        final_combined_df_renamed == RenameSessionId(combined)
        final_combined_df_unique ==
            DropDuplicates(final_combined_df_renamed, "eval_id")
    IN  IF original_df # << >>
        THEN LeftMergeFill(original_df, final_combined_df_unique)
        ELSE final_combined_df_renamed

\* one run of main with --output-csv-path: the pass returned `combined`
\* (non-empty), which is merged into the CSV on disk
MergeOnExport(combined) ==
    /\ pc = "merge"
    /\ combined # NoTable
    /\ final_combined_df' = combined
    /\ csvFile' = MergedCsv(csvFile, combined)
    /\ UNCHANGED << pc, logVars, fileVars, passVars >>

CaseA == Str(<< "case-a" >>)
CaseB == Str(<< "case-b" >>)

ScoreRowPool ==
    { ScoreRow(id, type, value) :
        id \in { CaseA, CaseB },
        type \in { << "fluency" >>, << "bleu" >> },
        value \in { << "1.0" >>, << "0.0" >>, NaN } }

\* the long-form tables a pass can return: at most one row per
\* (session_id, metric_type)
RECURSIVE ScoreTables(_)
ScoreTables(n) ==
    IF n = 0 THEN { << >> }
    ELSE LET shorter == ScoreTables(n - 1)
         IN  shorter \cup
             { Append(t, r) : t \in { u \in shorter : Len(u) = n - 1 },
                              r \in ScoreRowPool }

UniquePairs(df, id) ==
    \A i, j \in 1..Len(df) :
        (df[i][id] = df[j][id] /\ df[i].metric_type = df[j].metric_type)
            => i = j

NewTables ==
    { t \in ScoreTables(MaxNewRows) :
        t # << >> /\ UniquePairs(t, "session_id") }

InitMerge == pc = "merge" /\ LogsIdle /\ FilesIdle /\ PassIdle /\ MergeIdle

NextMerge == \E t \in NewTables : MergeOnExport(t)

SpecMerge == InitMerge /\ [][NextMerge]_vars

RowCount(df, eval_id) ==
    Cardinality({ i \in 1..Len(df) : df[i].eval_id = eval_id })

\* C6 (as claimed): a merge never loses prior data: every row of the prior
\* table is still in the written table; a prior row whose eval_id occurs in
\* the new table carries the new metric_type and metric_value (the prior value
\* where the new one is NaN), and any other prior row is unchanged.
C6_MergeKeepsPriorRows ==
    [][ (pc = "merge" /\ csvFile # NoTable) =>
          LET new == RenameSessionId(final_combined_df')
          IN  \A i \in 1..Len(csvFile) :
                LET prior == csvFile[i]
                    touched == \E n \in Range(new) : n.eval_id = prior.eval_id
                IN  /\ RowCount(csvFile', prior.eval_id)
                         >= RowCount(csvFile, prior.eval_id)
                    /\ touched =>
                         \A o \in Range(csvFile') :
                             o.eval_id = prior.eval_id =>
                                 \E n \in Range(new) :
                                     /\ n.eval_id = o.eval_id
                                     /\ n.metric_type = o.metric_type
                                     /\ \/ n.metric_value = o.metric_value
                                        \/ /\ n.metric_value = NaN
                                           /\ o.metric_value = prior.metric_value
                    /\ ~ touched => prior \in Range(csvFile')
      ]_vars

\* C7 (as claimed): merging a consolidated table into an export that already
\* equals it leaves the export unchanged: no duplicate (eval_id, metric_type)
\* rows, no changed value, no removed row.
C7_MergeIdempotent ==
    [][ (pc = "merge" /\ csvFile # NoTable
            /\ csvFile = RenameSessionId(final_combined_df')) =>
          /\ csvFile' = csvFile
          /\ UniquePairs(csvFile', "eval_id")
      ]_vars

(***************************************************************************)
(* Evaluation-set files: export_sessions_to_evalset and the loader of      *)
(* --use-evalset-files.  JSON keeps texts and mappings as they are, so a   *)
(* file is modelled by the object that json.dump receives.                 *)
(***************************************************************************)
\* {"parts": [{"text": value}]}
Parts(value) == [parts |-> << ("text" :> value) >>]

\* turn.get(key, {}).get("parts", [{}])[0].get("text", "")
PartText(turn, key) ==
    IF key \in DOMAIN turn
    THEN GetOr(turn[key].parts[1], "text", Str(<< >>))
    ELSE Str(<< >>)

\* one conversation turn of an exported record
Turn(row) ==
    LET turn == ("user_content" :> Parts(row.user_content))
                @@ ("final_response" :> Parts(row.agent_response))
    IN  IF Truthy(row.reference)
        THEN turn @@ ("expected_final_response" :> Parts(row.reference))
        ELSE turn

\* value of the decimal text that ends a "<session_id>-<i>" eval_id
DigitValue(tok) == CHOOSE i \in 0..9 : Digit[i] = tok

\* a < b for two texts of digits, compared as Python compares strings
RECURSIVE DigitsLess(_, _)
DigitsLess(a, b) ==
    IF b = << >> THEN FALSE
    ELSE IF a = << >> THEN TRUE
    ELSE IF Head(a) = Head(b) THEN DigitsLess(Tail(a), Tail(b))
    ELSE DigitValue(Head(a)) < DigitValue(Head(b))

\* the text after the "<session_id>-" of an eval_id
OrdinalText(row) ==
    SubSeq(row.eval_id.s, Len(row.session_id.s) + 2, Len(row.eval_id.s))

RECURSIVE InsertByEvalId(_, _)
InsertByEvalId(x, s) ==
    IF s = << >> THEN << x >>
    ELSE IF DigitsLess(OrdinalText(x), OrdinalText(Head(s))) THEN << x >> \o s
    ELSE << Head(s) >> \o InsertByEvalId(x, Tail(s))

\* group_df.sort_values(by="eval_id") within one session
RECURSIVE SortByEvalId(_)
SortByEvalId(s) ==
    IF s = << >> THEN << >>
    ELSE InsertByEvalId(s[Len(s)], SortByEvalId(SubSeq(s, 1, Len(s) - 1)))

FileName(id) == << "rag-agent.evalset." >> \o id.s \o << ".json" >>
CaseId(id)   == Str(<< "case-" >> \o id.s)

\* the file written for one agent session
AgentEvalSet(session_id, adf) ==
    LET group_df == SelectSeq(adf, LAMBDA r : r.session_id = session_id)
        sorted_group_df == SortByEvalId(group_df)
        conversation_turns ==
            [k \in 1..Len(sorted_group_df) |-> Turn(sorted_group_df[k])]
    IN  [eval_set_id |-> session_id,
         eval_cases  |-> << [eval_id      |-> CaseId(session_id),
                             conversation |-> conversation_turns,
                             ground_truth |-> group_df[1].ground_truth] >>]

\* the file written for one simple record
SimpleEvalSet(row) ==
    [eval_set_id |-> row.session_id,
     eval_cases  |-> << [eval_id      |-> CaseId(row.session_id),
                         conversation |-> << Turn(row) >>,
                         ground_truth |->
                             Dict(("reference" :> row.reference.s)
                                  @@ ("metric_type" :> row.metric_type.s))] >>]

\* the directory after writing `files` (a sequence of <<name, content>>) in
\* order: a later file of the same name replaces the earlier one
WriteFiles(dir, files) ==
    LET F[i \in 0..Len(files)] ==
            IF i = 0 THEN dir
            ELSE LET prev == F[i - 1]
                     name == files[i][1]
                 IN  [n \in DOMAIN prev \cup { name } |->
                         IF n = name THEN files[i][2] ELSE prev[n]]
    IN  F[Len(files)]

\* the files export_sessions_to_evalset writes, in writing order
ExportedFiles(adf, sdf) ==
    LET sessions == KeysInOrder([k \in 1..Len(adf) |-> adf[k].session_id])
    IN  [k \in 1..Len(sessions) |->
            << FileName(sessions[k]), AgentEvalSet(sessions[k], adf) >>]
        \o [k \in 1..Len(sdf) |->
            << FileName(sdf[k].session_id), SimpleEvalSet(sdf[k]) >>]

\* the row the loader appends for one case
EvalCaseRow(case) ==
    LET conversation == case.conversation
        ground_truth == case.ground_truth
        last  == conversation[Len(conversation)]
        first == conversation[1]
        case_reference ==
            Or(DictGetOr(ground_truth, "reference", Str(<< >>)),
               PartText(last, "expected_final_response"))
    IN  [conversation |-> conversation,
         session_id   |-> case.eval_id,
         response     |-> PartText(last, "final_response"),
         prompt       |-> PartText(first, "user_content"),
         reference    |-> case_reference,
         ground_truth |-> ground_truth]

\* all_eval_cases for the files read in the order `contents`
AllEvalCases(contents) ==
    Concat([f \in 1..Len(contents) |->
              [k \in 1..Len(contents[f].eval_cases) |->
                  EvalCaseRow(contents[f].eval_cases[k])]])

\* mutant: the duplicates of a session_id are kept
LoadEvalDf_KeepDuplicates(contents) == AllEvalCases(contents)

\* pd.DataFrame(all_eval_cases).drop_duplicates(subset=["session_id"])
LoadEvalDf(contents) ==
    DropDuplicates(AllEvalCases(contents), "session_id")

\* the orders in which os.listdir can return the files of a directory
Listings(dir) ==
    { l \in [1..Cardinality(DOMAIN dir) -> DOMAIN dir] :
        \A i, j \in DOMAIN l : l[i] = l[j] => i = j }

\* export_sessions_to_evalset(None) over the listing received so far
ExportSessionsToEvalset ==
    /\ pc = "ingest"
    /\ session_filter' = None
    /\ agent_df' = GetAgentDf(entries, None)
    /\ simple_df' = GetSimpleDf(entries, None)
    /\ evalset_files' = WriteFiles(evalset_files, ExportedFiles(agent_df', simple_df'))
    /\ pc' = "exported"
    /\ UNCHANGED << entries, eval_df, passVars, mergeVars >>

\* the loading loop of --use-evalset-files over the eval_sets directory
LoadEvalsetFiles(listing) ==
    /\ pc = "exported"
    /\ eval_df' = LoadEvalDf([k \in DOMAIN listing |-> evalset_files[listing[k]]])
    /\ pc' = "loaded"
    /\ UNCHANGED << logVars, evalset_files, passVars, mergeVars >>

InitEvalset == pc = "ingest" /\ LogsIdle /\ FilesIdle /\ PassIdle /\ MergeIdle

NextEvalset ==
    \/ \E e \in EntryPool : AppendEntry(e, MaxExportEntries)
    \/ ExportSessionsToEvalset
    \/ \E l \in Listings(evalset_files) : LoadEvalsetFiles(l)

SpecEvalset == InitEvalset /\ [][NextEvalset]_vars

\* C9 (as claimed): every reconstructed record, exported to the evaluation-set
\* format and loaded back, yields a record with identical prompt, response
\* and, when present, reference; also when other turns share its session.
C9_EvalsetRoundTrip ==
    pc = "loaded" =>
      \A df \in { agent_df, simple_df } :
        \A i \in 1..Len(df) :
          \E k \in 1..Len(eval_df) :
            /\ eval_df[k].session_id = CaseId(df[i].session_id)
            /\ eval_df[k].prompt = df[i].user_content
            /\ eval_df[k].response = df[i].agent_response
            /\ Truthy(df[i].reference) =>
                   eval_df[k].reference = df[i].reference

(***************************************************************************)
(* The orchestration pass: run_evaluation_and_generate_artifacts, started  *)
(* by main with the eval_df of --use-evalset-files or, by default, from    *)
(* the logs.                                                               *)
(***************************************************************************)
\* get_last_run_timestamp()
GetLastRunTimestamp(file, clock) == IF file = NoTime THEN clock - Day ELSE file

\* last_run = None if all_time else get_last_run_timestamp()
LastRun(at, file, clock) ==
    IF at THEN NoTime ELSE GetLastRunTimestamp(file, clock)

\* mutant: the timestamp is saved by an all-time pass too
SavedTimestamp_Always(at, file, clock) == clock

\* `if not all_time: save_current_timestamp()`: the file after the last step
SavedTimestamp(at, file, clock) == IF at THEN file ELSE clock

\* get_metric_type(gt), then agent_df["metric_type"].fillna("simple",
\* inplace=True).  The fill goes through a column selected from the frame:
\* it reaches the frame in a pandas without copy-on-write (inplace_fill) and
\* is lost in a pandas with copy-on-write, where the value stays None.
MetricTypeOf(ground_truth, inplace_fill) ==
    LET mt == IF ground_truth.t = "dict"
              THEN DictGetOr(ground_truth, "metric_type", None) ELSE None
    IN  IF mt = None /\ inplace_fill THEN Str(<< "simple" >>) ELSE mt

\* agent_df["metric_type"] = agent_df["ground_truth"].apply(get_metric_type)
WithMetricTypes(df, inplace_fill) ==
    [i \in 1..Len(df) |->
        [k \in DOMAIN df[i] \cup { "metric_type" } |->
            IF k = "metric_type"
            THEN MetricTypeOf(df[i].ground_truth, inplace_fill)
            ELSE df[i][k]]]

\* the two selections of eval_df on ground_truth.get("metric_type")
IsSimpleCase(row) ==
    DictGetOr(row.ground_truth, "metric_type", None) = Str(<< "simple" >>)
AgentPart(df)  == SelectSeq(df, LAMBDA r : ~ IsSimpleCase(r))
SimplePart(df) == SelectSeq(df, IsSimpleCase)

\* the metric types of the model in the order groupby yields its keys
\* (sorted as Python sorts strings)
FamilyOrder ==
    << << >>, << "MANUAL" >>, << "bleu" >>, << "bleu", " " >>,
       << "contains_words" >>, << "default_agent_metric" >>, << "rouge" >>,
       << "simple" >> >>

\* the keys of agent_df.groupby("metric_type"); groupby drops the rows whose
\* key is None
GroupKeys(df) ==
    SelectSeq(FamilyOrder,
              LAMBDA f : \E i \in 1..Len(df) : df[i].metric_type = Str(f))

\* mutant: only the empty metric type is skipped
IsSkippedFamily_EmptyOnly(metric_type) == metric_type = << >>

\* `if not metric_type` and `if metric_type == "MANUAL"`: the group is skipped
IsSkippedFamily(metric_type) ==
    metric_type = << >> \/ metric_type = << "MANUAL" >>

\* the columns selected at the head of both blocks exist
HasJobColumns(df) ==
    \A i \in 1..Len(df) :
        { "response", "reference", "session_id", "prompt" } \subseteq DOMAIN df[i]

\* df[["response", "reference", "session_id", "prompt"]]
JobColumns(df) ==
    [i \in 1..Len(df) |-> [response   |-> df[i].response,
                           reference  |-> df[i].reference,
                           session_id |-> df[i].session_id,
                           prompt     |-> df[i].prompt]]

\* a cell that is NaN after replace("", np.nan)
IsNA(v) == v.t = "none" \/ (v.t = "str" /\ v.s = << >>)

ReferenceFamilies == { << "rouge" >>, << "bleu" >>, << "contains_words" >> }

\* replace("", nan).dropna(subset=essential_columns) of an agent group
CleanGroup(df, metric_type) ==
    SelectSeq(JobColumns(df),
        LAMBDA r : /\ ~ IsNA(r.response)
                   /\ metric_type \in ReferenceFamilies => ~ IsNA(r.reference))

\* replace("", nan).dropna(subset=["response"]) of simple_df
CleanSimple(df) == SelectSeq(JobColumns(df), LAMBDA r : ~ IsNA(r.response))

\* metric_type.strip(): the blank tokens are removed
Strip(metric_type) == Remove(metric_type, " ")

\* metrics_to_apply
MetricsToApply(metric_type, input) ==
    LET base == << << "fluency" >>, << "coherence" >>, << "safety" >> >>
    IN  CASE metric_type = << "contains_words" >> -> << << "contains_words" >> >>
          [] metric_type = << "bleu" >>  -> << << "bleu" >> >>
          [] metric_type = << "rouge" >> -> << << "rouge" >> >>
          [] OTHER ->
               IF \E i \in 1..Len(input) : ~ IsNA(input[i].reference)
               THEN base \o << << "rouge" >>, << "bleu" >> >>
               ELSE base

(***************************************************************************)
(* The scoring collaborator.  EvalTask.evaluate either raises or returns a *)
(* summary ("<metric>/mean" keys) and a metrics table with one score       *)
(* column "<metric>_score" per metric; the table has a row per input row   *)
(* ("ok"), one row more ("mismatch"), or is missing, with an empty summary *)
(* ("none").  A score is an opaque value.                                  *)
(***************************************************************************)
ScoringOutcomes == { "ok", "raise", "mismatch", "none" }
ScoreValue == << "1.0" >>

NoMetrics ==
    [is_none |-> TRUE, metric_type |-> << >>, has_session_id |-> FALSE,
     session_id |-> << >>, n |-> 0, score_cols |-> << >>]

EvaluateSummary(metrics, outcome) ==
    IF outcome = "none" THEN {}
    ELSE { metrics[k] \o << "/mean" >> : k \in 1..Len(metrics) }

EvaluateRowCount(input, outcome) ==
    IF outcome = "mismatch" THEN Len(input) + 1 ELSE Len(input)

\* _execute_evaluation_run_for_artifacts, given that evaluate returned:
\* the returned summary and the metrics table with metric_type and, when the
\* lengths agree, session_id
ExecuteEvaluationRun(input, metric_type, outcome) ==
    LET family == Strip(metric_type)
        metrics == MetricsToApply(family, input)
        n == EvaluateRowCount(input, outcome)
    IN  [summary |-> EvaluateSummary(metrics, outcome),
         table   |->
            IF outcome = "none" THEN NoMetrics
            ELSE [is_none        |-> FALSE,
                  metric_type    |-> family,
                  has_session_id |-> Len(input) = n,
                  session_id     |->
                      IF Len(input) = n
                      THEN [k \in 1..n |-> input[k].session_id] ELSE << >>,
                  n              |-> n,
                  score_cols     |->
                      [k \in 1..Len(metrics) |-> metrics[k] \o << "_score" >>]]]

\* the call recorded for the scoring collaborator
Job(block, metric_type, input, outcome) ==
    [block |-> block, metric_type |-> metric_type, input |-> input,
     outcome |-> outcome]

\* `if summary_metrics: all_summary_metrics_data.append(...)`
AppendSummary(list, summary, label) ==
    IF summary # {} THEN Append(list, [summary |-> summary, label |-> label])
    ELSE list

\* agent block: a table is collected only when it has a session_id column
AppendAgentMetrics(list, table, metric_type) ==
    IF ~ table.is_none /\ table.has_session_id
    THEN Append(list, [table EXCEPT !.metric_type = metric_type])
    ELSE list

\* simple block: every returned table is collected
AppendSimpleMetrics(list, table) ==
    IF ~ table.is_none THEN Append(list, table) ELSE list

\* mutant: an exception of a job is not caught
AfterJobRaised_Propagates(next) == "aborted"

\* `except Exception: ... continue`: where the pass goes on after a job raised
AfterJobRaised(next) == next

\* mutant: a failure of the storage collaborator is swallowed
AfterStorageCall_Swallowed(storage_ok) == "consolidate"

\* upload_from_string / download_to_filename are not guarded
AfterStorageCall(storage_ok) == IF storage_ok THEN "consolidate" ELSE "aborted"

(***************************************************************************)
(* Consolidation into the long-form table.                                 *)
(***************************************************************************)
\* a table that reaches the melt: not empty, with score columns
IsMelted(df) == df.n > 0 /\ df.score_cols # << >>

\* df[["session_id"] + score_cols] raises KeyError without the column
ConsolidationRaises(dfs) ==
    \E i \in 1..Len(dfs) : IsMelted(dfs[i]) /\ ~ dfs[i].has_session_id

\* melt of one table (column after column), "_score" removed from the names
Melted(df) ==
    Concat([c \in 1..Len(df.score_cols) |->
              [r \in 1..df.n |->
                  ScoreRow(df.session_id[r], Remove(df.score_cols[c], "_score"),
                           ScoreValue)]])

\* final_combined_df
Combined(dfs) ==
    IF dfs = << >> THEN NoTable
    ELSE LET processed_dfs_for_concat == SelectSeq(dfs, IsMelted)
         IN  Concat([k \in 1..Len(processed_dfs_for_concat) |->
                       Melted(processed_dfs_for_concat[k])])

(***************************************************************************)
(* Inputs of a pass.                                                       *)
(***************************************************************************)
EvalSetFile(id, prompt, response, ground_truth) ==
    [eval_set_id |-> Str(id),
     eval_cases  |->
        << [eval_id      |-> CaseId(Str(id)),
            conversation |-> << ("user_content" :> Parts(Str(prompt)))
                                @@ ("final_response" :> Parts(Str(response))) >>,
            ground_truth |-> Dict(ground_truth)] >>]

EvalSetFilePool ==
    { EvalSetFile(<< "a" >>, << "p" >>, << "r" >>,
                  ("metric_type" :> << "bleu" >>) @@ ("reference" :> << "g" >>)),
      EvalSetFile(<< "a" >>, << "p" >>, << "r2" >>,
                  ("metric_type" :> << "bleu" >>) @@ ("reference" :> << "g" >>)),
      EvalSetFile(<< "b" >>, << "p" >>, << "r" >>,
                  ("metric_type" :> << "bleu" >>)),
      EvalSetFile(<< "c" >>, << "p" >>, << "r" >>,
                  ("metric_type" :> << "MANUAL" >>) @@ ("reference" :> << "g" >>)),
      EvalSetFile(<< "d" >>, << "p" >>, << "r" >>,
                  ("metric_type" :> << >>)),
      EvalSetFile(<< "e" >>, << "p" >>, << "r" >>, EmptyDict),
      EvalSetFile(<< "f" >>, << "p" >>, << "r" >>,
                  ("metric_type" :> << "simple" >>)),
      EvalSetFile(<< "g" >>, << >>, << "r" >>,
                  ("metric_type" :> << "simple" >>)),
      EvalSetFile(<< "h" >>, << "p" >>, << "r" >>,
                  ("metric_type" :> << "bleu", " " >>)) }

\* the sequences of at most n distinct members of pool
RECURSIVE DistinctSeqs(_, _)
DistinctSeqs(pool, n) ==
    IF n = 0 THEN { << >> }
    ELSE LET shorter == DistinctSeqs(pool, n - 1)
         IN  shorter \cup
             UNION { { Append(q, x) : x \in pool \ Range(q) } :
                     q \in { u \in shorter : Len(u) = n - 1 } }

\* the files a pass can read: at least one, in the order of the listing
EvalSetContents == DistinctSeqs(EvalSetFilePool, MaxFiles) \ { << >> }

\* the contents list_entries can return to a pass whose lower bound is
\* `bound`: entries of the past, none older than the bound
PassListings(bound, clock) ==
    DistinctSeqs({ e \in EntryPool : /\ e.timestamp <= clock
                                     /\ bound # NoTime => e.timestamp >= bound },
                 MaxPassEntries)

(***************************************************************************)
(* The steps of a pass.                                                    *)
(***************************************************************************)
\* lines 364-372 and the empty accumulators
BeginPass(at) ==
    /\ pc = "idle"
    /\ all_time' = at
    /\ last_run' = LastRun(at, timestampFile, now)
    /\ ts_reads' = IF at THEN 0 ELSE 1
    /\ ts_writes' = 0
    /\ file_at_start' = timestampFile
    /\ collected_at' = NoTime
    /\ jobs' = << >>
    /\ failed' = {}
    /\ all_summary_metrics_data' = << >>
    /\ all_metrics_dfs' = << >>
    /\ final_combined_df' = NoTable
    /\ UNCHANGED << timestampFile, now, csvFile, evalset_files >>

\* main with --use-evalset-files: the files are loaded and the pass begins
\* with eval_df
RunEvaluationFromEvalset(at, inplace_fill) ==
    /\ BeginPass(at)
    /\ from_evalset' = TRUE
    /\ \E contents \in EvalSetContents : eval_df' = LoadEvalDf(contents)
    /\ agent_df' = WithMetricTypes(AgentPart(eval_df'), inplace_fill)
    /\ simple_df' = SimplePart(eval_df')
    /\ groups' = GroupKeys(agent_df')
    /\ pc' = "groups"
    /\ UNCHANGED << entries, session_filter >>

\* main without options: the pass begins and will fetch the logs
RunEvaluationFromLogs(at) ==
    /\ BeginPass(at)
    /\ from_evalset' = FALSE
    /\ eval_df' = NoTable
    /\ agent_df' = NoTable
    /\ simple_df' = NoTable
    /\ groups' = << >>
    /\ pc' = "collect"
    /\ UNCHANGED << entries, session_filter >>

\* get_logs_for_evaluation(last_run, None): list_entries raises, or returns
\* `listing`
CollectLogs(ingestion_ok, inplace_fill) ==
    /\ pc = "collect"
    /\ IF ingestion_ok
       THEN /\ \E listing \in PassListings(last_run, now) : entries' = listing
            /\ agent_df' = WithMetricTypes(GetAgentDf(entries', None),
                                           inplace_fill)
            /\ simple_df' = GetSimpleDf(entries', None)
            /\ groups' = GroupKeys(agent_df')
            /\ collected_at' = now
            /\ pc' = "groups"
            /\ UNCHANGED failed
       ELSE /\ inplace_fill
            /\ failed' = failed \cup { "ingestion" }
            /\ pc' = "aborted"
            /\ UNCHANGED << entries, agent_df, simple_df, groups,
                            collected_at >>
    /\ UNCHANGED << session_filter, fileVars, all_time, from_evalset, last_run,
                    timestampFile, now, all_summary_metrics_data,
                    all_metrics_dfs, jobs, file_at_start, ts_reads, ts_writes,
                    mergeVars >>

\* one iteration of `for metric_type, group_df_original in groupby(...)`
AgentGroup(outcome) ==
    /\ pc = "groups"
    /\ groups # << >>
    /\ LET metric_type == Head(groups)
           group_df_original ==
               SelectSeq(agent_df, LAMBDA r : r.metric_type = Str(metric_type))
       IN  IF IsSkippedFamily(metric_type)
           THEN /\ outcome = "ok"
                /\ pc' = "groups"
                /\ UNCHANGED << jobs, failed, all_summary_metrics_data,
                                all_metrics_dfs >>
           ELSE IF ~ HasJobColumns(group_df_original)
           THEN /\ outcome = "ok"
                /\ pc' = "aborted"
                /\ UNCHANGED << jobs, failed, all_summary_metrics_data,
                                all_metrics_dfs >>
           ELSE LET group_df == CleanGroup(group_df_original, metric_type)
                    run == ExecuteEvaluationRun(group_df, metric_type, outcome)
                IN  IF group_df = << >>
                    THEN /\ outcome = "ok"
                         /\ pc' = "groups"
                         /\ UNCHANGED << jobs, failed, all_summary_metrics_data,
                                         all_metrics_dfs >>
                    ELSE /\ jobs' = Append(jobs,
                                 Job("agent", metric_type, group_df, outcome))
                         /\ IF outcome = "raise"
                            THEN /\ failed' = failed \cup { "scoring" }
                                 /\ pc' = AfterJobRaised("groups")
                                 /\ UNCHANGED << all_summary_metrics_data,
                                                 all_metrics_dfs >>
                            ELSE /\ pc' = "groups"
                                 /\ all_summary_metrics_data' =
                                        AppendSummary(all_summary_metrics_data,
                                                      run.summary, metric_type)
                                 /\ all_metrics_dfs' =
                                        AppendAgentMetrics(all_metrics_dfs,
                                                           run.table, metric_type)
                                 /\ UNCHANGED failed
    /\ groups' = Tail(groups)
    /\ UNCHANGED << logVars, fileVars, all_time, from_evalset, last_run,
                    timestampFile, now, file_at_start, collected_at, ts_reads, ts_writes,
                    mergeVars >>

\* the block of simple_df, after the last group
SimpleBlock(outcome) ==
    /\ pc = "groups"
    /\ groups = << >>
    /\ IF simple_df = NoTable
       THEN /\ outcome = "ok"
            /\ pc' = "radar"
            /\ UNCHANGED << jobs, failed, all_summary_metrics_data,
                            all_metrics_dfs >>
       ELSE IF ~ HasJobColumns(simple_df)
       THEN /\ outcome = "ok"
            /\ pc' = "aborted"
            /\ UNCHANGED << jobs, failed, all_summary_metrics_data,
                            all_metrics_dfs >>
       ELSE LET simple_df_cleaned == CleanSimple(simple_df)
                run == ExecuteEvaluationRun(simple_df_cleaned, << "simple" >>,
                                            outcome)
            IN  IF simple_df_cleaned = << >>
                THEN /\ outcome = "ok"
                     /\ pc' = "radar"
                     /\ UNCHANGED << jobs, failed, all_summary_metrics_data,
                                     all_metrics_dfs >>
                ELSE /\ jobs' = Append(jobs,
                             Job("simple", << "simple" >>, simple_df_cleaned,
                                 outcome))
                     /\ IF outcome = "raise"
                        THEN /\ failed' = failed \cup { "scoring" }
                             /\ pc' = AfterJobRaised("radar")
                             /\ UNCHANGED << all_summary_metrics_data,
                                             all_metrics_dfs >>
                        ELSE /\ pc' = "radar"
                             /\ all_summary_metrics_data' =
                                    AppendSummary(all_summary_metrics_data,
                                                  run.summary, << "simple" >>)
                             /\ all_metrics_dfs' =
                                    AppendSimpleMetrics(all_metrics_dfs, run.table)
                             /\ UNCHANGED failed
    /\ UNCHANGED << logVars, fileVars, all_time, from_evalset, last_run,
                    timestampFile, now, groups, file_at_start, collected_at, ts_reads,
                    ts_writes, mergeVars >>

\* a chart is drawn when some summary has a "<metric>/mean" key
ChartDrawn(summaries) ==
    \E i \in 1..Len(summaries) :
        \E key \in summaries[i].summary : "/mean" \in Range(key)

\* the radar chart: uploaded to and downloaded from blob storage
RadarChart(storage_ok) ==
    /\ pc = "radar"
    /\ IF ChartDrawn(all_summary_metrics_data)
       THEN /\ pc' = AfterStorageCall(storage_ok)
            /\ failed' = IF storage_ok THEN failed ELSE failed \cup { "storage" }
       ELSE /\ storage_ok
            /\ pc' = "consolidate"
            /\ UNCHANGED failed
    /\ UNCHANGED << logVars, fileVars, all_time, from_evalset, last_run,
                    timestampFile, now, groups, all_summary_metrics_data,
                    all_metrics_dfs, jobs, file_at_start, collected_at, ts_reads, ts_writes,
                    mergeVars >>

\* `if all_metrics_dfs:` ... final_combined_df
Consolidate ==
    /\ pc = "consolidate"
    /\ IF ConsolidationRaises(all_metrics_dfs)
       THEN pc' = "aborted" /\ UNCHANGED final_combined_df
       ELSE pc' = "save" /\ final_combined_df' = Combined(all_metrics_dfs)
    /\ UNCHANGED << logVars, fileVars, passVars, csvFile >>

\* `if not all_time: save_current_timestamp()` and the return
SaveTimestamp ==
    /\ pc = "save"
    /\ timestampFile' = SavedTimestamp(all_time, timestampFile, now)
    /\ ts_writes' = IF timestampFile' # timestampFile \/ ~ all_time
                    THEN ts_writes + 1 ELSE ts_writes
    /\ pc' = "done"
    /\ UNCHANGED << logVars, fileVars, all_time, from_evalset, last_run, now,
                    groups, all_summary_metrics_data, all_metrics_dfs, jobs,
                    failed, file_at_start, collected_at, ts_reads, mergeVars >>

\* the clock advances
Tick ==
    /\ now < Day + MaxTicks
    /\ now' = now + 1
    /\ UNCHANGED << pc, logVars, fileVars, all_time, from_evalset, last_run,
                    timestampFile, groups, all_summary_metrics_data,
                    all_metrics_dfs, jobs, failed, file_at_start, collected_at, ts_reads,
                    ts_writes, mergeVars >>

\* the process ends, with the pass returned or raised: only the files stay
Exit ==
    /\ pc \in { "done", "aborted" }
    /\ pc' = "idle"
    /\ entries' = << >> /\ agent_df' = NoTable /\ simple_df' = NoTable
    /\ session_filter' = None /\ eval_df' = NoTable
    /\ all_time' = FALSE /\ from_evalset' = FALSE /\ last_run' = NoTime
    /\ groups' = << >>
    /\ all_summary_metrics_data' = << >> /\ all_metrics_dfs' = << >>
    /\ jobs' = << >> /\ failed' = {}
    /\ file_at_start' = NoTime /\ collected_at' = NoTime
    /\ ts_reads' = 0 /\ ts_writes' = 0
    /\ final_combined_df' = NoTable
    /\ UNCHANGED << evalset_files, timestampFile, now, csvFile >>

Init == pc = "idle" /\ LogsIdle /\ FilesIdle /\ PassIdle /\ MergeIdle

Next ==
    \/ \E at \in BOOLEAN, fill \in BOOLEAN : RunEvaluationFromEvalset(at, fill)
    \/ \E at \in BOOLEAN : RunEvaluationFromLogs(at)
    \/ \E ok \in BOOLEAN, fill \in BOOLEAN : CollectLogs(ok, fill)
    \/ \E o \in ScoringOutcomes : AgentGroup(o)
    \/ \E o \in ScoringOutcomes : SimpleBlock(o)
    \/ \E ok \in BOOLEAN : RadarChart(ok)
    \/ Consolidate
    \/ SaveTimestamp
    \/ Exit
    \/ Tick

Spec == Init /\ [][Next]_vars

(***************************************************************************)
(* Properties of a pass.                                                   *)
(***************************************************************************)
\* the step is an iteration of a block that called the scoring collaborator
JobStep == pc = "groups" /\ Len(jobs') = Len(jobs) + 1
LastJob == jobs'[Len(jobs')]

\* s is t with something appended, or t
Extends(s, t) == Len(s) >= Len(t) /\ SubSeq(s, 1, Len(t)) = t

\* the pass is past the two blocks
PastBlocks == pc \in { "radar", "consolidate", "save", "done" }

\* C1: in a pass the timestamp file is written at most once, by the last
\* step only (the groups, the simple block and the consolidation are over),
\* and only when the pass is not an all-time pass; an all-time pass neither
\* reads nor writes it.
C1_TimestampWrittenOnceAtEnd ==
    [][ /\ (timestampFile' # timestampFile \/ ts_writes' > ts_writes) =>
              /\ pc = "save" /\ pc' = "done" /\ groups = << >>
              /\ ~ all_time
              /\ ts_writes = 0 /\ ts_writes' = 1
        /\ (pc' # "idle" /\ all_time') =>
              /\ ts_reads' = 0 /\ ts_writes' = 0 /\ last_run' = NoTime
              /\ timestampFile' = file_at_start'
      ]_vars

\* C1 witness: an incremental pass that ran a job has ended and its one write
\* replaced the value the file had at the start by the current time.
C1_Witness ==
    /\ pc = "done" /\ ~ all_time /\ jobs # << >>
    /\ ts_writes = 1 /\ timestampFile = now /\ timestampFile # file_at_start

\* C2 (as claimed): whenever the ingestion, scoring or storage collaborator
\* has failed in a pass, the pass is aborted and the timestamp file has the
\* value it had when the pass started.
C2_AnyCollaboratorFailureAborts ==
    failed # {} => pc = "aborted" /\ timestampFile = file_at_start

\* C2 (amended): whenever the ingestion or the storage collaborator has
\* failed in a pass, the pass is aborted, nothing was written to the
\* timestamp file and it has the value it had when the pass started.
C2_IngestionOrStorageFailureAborts ==
    failed \cap { "ingestion", "storage" } # {} =>
        /\ pc = "aborted"
        /\ ts_writes = 0
        /\ timestampFile = file_at_start

\* C2 witness: an incremental pass whose job succeeded was aborted by the
\* failure of the storage collaborator.
C2_Witness ==
    /\ pc = "aborted" /\ ~ all_time /\ "storage" \in failed
    /\ \E i \in 1..Len(jobs) : jobs[i].outcome = "ok"

\* the partitions of the pass whose job is due: the groups that are not
\* skipped and the simple records, where records are left after cleaning
DueAgentFamilies ==
    { f \in Range(GroupKeys(agent_df)) :
        /\ ~ IsSkippedFamily(f)
        /\ CleanGroup(SelectSeq(agent_df, LAMBDA r : r.metric_type = Str(f)),
                      f) # << >> }
SimpleJobDue == simple_df # NoTable /\ CleanSimple(simple_df) # << >>

\* C3: a job that raises does not abort the pass and leaves the summary list
\* and the score tables as they were; a job that returns adds its summary and
\* its table (one row per input record, with the records' ids); no later step
\* of the pass removes anything from them; and once a job has raised and the
\* two blocks are over, every partition whose job is due has had its job.
C3_JobFailureIsolated ==
    [][ /\ (JobStep /\ LastJob.outcome = "raise") =>
              /\ pc' \in { "groups", "radar" }
              /\ all_summary_metrics_data' = all_summary_metrics_data
              /\ all_metrics_dfs' = all_metrics_dfs
        /\ (JobStep /\ LastJob.outcome = "ok") =>
              /\ Len(all_summary_metrics_data') =
                     Len(all_summary_metrics_data) + 1
              /\ all_summary_metrics_data'[Len(all_summary_metrics_data')].label
                     = LastJob.metric_type
              /\ Len(all_metrics_dfs') = Len(all_metrics_dfs) + 1
              /\ all_metrics_dfs'[Len(all_metrics_dfs')].session_id =
                     [k \in 1..Len(LastJob.input) |->
                         LastJob.input[k].session_id]
        /\ (pc # "idle" /\ pc' # "idle") =>
              /\ Extends(all_summary_metrics_data', all_summary_metrics_data)
              /\ Extends(all_metrics_dfs', all_metrics_dfs)
        /\ (PastBlocks' /\ \E i \in 1..Len(jobs') : jobs'[i].outcome = "raise") =>
              /\ \A f \in DueAgentFamilies' :
                    \E i \in 1..Len(jobs') :
                        jobs'[i].block = "agent" /\ jobs'[i].metric_type = f
              /\ SimpleJobDue' =>
                    \E i \in 1..Len(jobs') : jobs'[i].block = "simple"
      ]_vars

\* C3 witness: a pass has ended in which a job raised, a later job returned,
\* and the outputs hold exactly the later job's summary and table.
C3_Witness ==
    /\ pc = "done"
    /\ Len(jobs) = 2
    /\ jobs[1].outcome = "raise" /\ jobs[2].outcome = "ok"
    /\ Len(all_summary_metrics_data) = 1 /\ Len(all_metrics_dfs) = 1
    /\ all_summary_metrics_data[1].label = jobs[2].metric_type

\* C8: the combined long-form table of a pass has at most one row for a
\* (session_id, metric_type) pair.
C8_OneRowPerRecordAndMetric ==
    \A i, j \in 1..Len(final_combined_df) :
        ( /\ final_combined_df[i].session_id = final_combined_df[j].session_id
          /\ final_combined_df[i].metric_type = final_combined_df[j].metric_type )
        => i = j

\* C8 witness: a pass has ended whose combined table was built from the
\* tables of two jobs and has rows of two records and of two metrics.
C8_Witness ==
    /\ pc = "done"
    /\ Len(all_metrics_dfs) = 2
    /\ \E i, j \in 1..Len(final_combined_df) :
          /\ final_combined_df[i].session_id # final_combined_df[j].session_id
          /\ final_combined_df[i].metric_type # final_combined_df[j].metric_type

\* the metric_type the record `session_id` of the pass carries in its
\* ground_truth (None when it carries none)
FamilyOfRecord(session_id) ==
    LET row == CHOOSE r \in Range(eval_df) : r.session_id = session_id
    IN  IF row.ground_truth.t = "dict"
        THEN DictGetOr(row.ground_truth, "metric_type", None) ELSE None

JobRecords ==
    UNION { { jobs[i].input[k].session_id : k \in 1..Len(jobs[i].input) } :
            i \in 1..Len(jobs) }

\* the step is the iteration of a group of `families`
GroupStepOf(families) ==
    /\ pc = "groups" /\ groups # << >> /\ Head(groups) \in families
    /\ groups' # groups

\* C10 (as claimed): no record whose metric family is empty or missing and no
\* record tagged MANUAL is in the input of a scoring job.
C10_NoEmptyMissingOrManualScored ==
    \A id \in JobRecords :
        FamilyOfRecord(id) \notin { None, Str(<< >>), Str(<< "MANUAL" >>) }

\* C10 (amended): no record whose metric family is the empty text and no
\* record tagged MANUAL is in the input of a scoring job, and the iteration
\* that excludes their group calls no job, does not abort the pass and hands
\* over to the next group.
C10_NoEmptyOrManualScored ==
    /\ [](\A id \in JobRecords :
            FamilyOfRecord(id) \notin { Str(<< >>), Str(<< "MANUAL" >>) })
    /\ [][ GroupStepOf({ << >>, << "MANUAL" >> }) =>
              /\ pc' = "groups" /\ groups' = Tail(groups)
              /\ jobs' = jobs
              /\ all_summary_metrics_data' = all_summary_metrics_data
              /\ all_metrics_dfs' = all_metrics_dfs
         ]_vars

\* C10 witness: a pass over a MANUAL record and a record of another family
\* has ended; the only job was the other family's.
C10_Witness ==
    /\ pc = "done"
    /\ \E i \in 1..Len(eval_df) :
          FamilyOfRecord(eval_df[i].session_id) = Str(<< "MANUAL" >>)
    /\ Len(jobs) = 1 /\ jobs[1].outcome = "ok"
    /\ jobs[1].metric_type = << "bleu" >>

\* the family a job runs under: _execute_evaluation_run_for_artifacts strips
\* the metric type it is given before it chooses the metrics
JobFamily(job) == Strip(job.metric_type)

\* the rows of agent_df in the group of metric type f
GroupOf(f) == SelectSeq(agent_df, LAMBDA r : r.metric_type = Str(f))

\* C11 (as claimed): a record with an empty reference is never in the input
\* of a "bleu", "rouge" or "contains_words" job; in a job of another family
\* every record of the partition with a non-empty response is kept; and the
\* iteration of a partition that is empty after the filter creates no job and
\* hands over to the next partition.
C11_ReferenceFilter ==
    /\ [](\A i \in 1..Len(jobs) :
            /\ JobFamily(jobs[i]) \in ReferenceFamilies =>
                  \A k \in 1..Len(jobs[i].input) :
                      ~ IsNA(jobs[i].input[k].reference)
            /\ (JobFamily(jobs[i]) \notin ReferenceFamilies
                   /\ jobs[i].block = "agent") =>
                  \A r \in Range(GroupOf(jobs[i].metric_type)) :
                      ~ IsNA(r.response) =>
                          \E k \in 1..Len(jobs[i].input) :
                              jobs[i].input[k].session_id = r.session_id)
    /\ [][ ( /\ GroupStepOf(Range(FamilyOrder))
             /\ HasJobColumns(agent_df)
             /\ ~ IsSkippedFamily(Head(groups))
             /\ CleanGroup(GroupOf(Head(groups)), Head(groups)) = << >> ) =>
              pc' = "groups" /\ jobs' = jobs
         ]_vars

(***************************************************************************)
(* Ingestion of entries of every shape, and of requests whose id looks     *)
(* like the id of a structured record.                                     *)
(***************************************************************************)
\* an entry that carries its payload as the code finds it: shape "dict"
\* (payload is a dict), "str" (payload is a str), "json_payload" (no usable
\* payload, a json_payload mapping), "text_payload" (no usable payload, a
\* text_payload string), "proto" (a payload that is neither, nothing else)
ShapedEntry(ts, shape, payload, text) ==
    [timestamp |-> ts, shape |-> shape, payload |-> payload, text |-> text]

IngestPool ==
    { Entry(1, ("session_id" :> S1) @@ ("log_type" :> UserLog)
                 @@ ("prompt" :> Str(<< "p1" >>))),
      Entry(2, ("session_id" :> S1) @@ ("log_type" :> FinalLog)
                 @@ ("final_answer" :> Str(<< "a1" >>))),
      Entry(1, ("request_id" :> Str(<< "s1", "-", "0" >>))
                 @@ ("prompt" :> Str(<< "q0" >>))
                 @@ ("response" :> Str(<< "b0" >>))),
      Entry(1, ("request_id" :> R1) @@ ("prompt" :> Str(<< "q1" >>))
                 @@ ("response" :> Str(<< "b1" >>))),
      Entry(3, ("session_id" :> S1) @@ ("request_id" :> R1)
                 @@ ("log_type" :> UserLog)
                 @@ ("prompt" :> Str(<< "p3" >>))
                 @@ ("response" :> Str(<< "b3" >>))),
      ShapedEntry(1, "str", EmptyDict, << "hello" >>),
      ShapedEntry(2, "text_payload", EmptyDict, << "world" >>),
      ShapedEntry(2, "json_payload",
                  ("request_id" :> Str(<< "r2" >>))
                  @@ ("prompt" :> Str(<< "q2" >>))
                  @@ ("response" :> Str(<< "b2" >>)),
                  << >>),
      ShapedEntry(3, "proto", EmptyDict, << >>) }

NextIngest ==
    \/ \E e \in IngestPool : AppendEntry(e, MaxIngestEntries)
    \/ \E f \in SessionFilters : GetLogsForEvaluation(f)

SpecIngest == InitPair /\ [][NextIngest]_vars

\* the record ids of a table are pairwise distinct
DistinctIds(df) ==
    \A i, j \in 1..Len(df) : df[i].eval_id = df[j].eval_id => i = j

\* no entry of the listing is in both buckets
BucketsDisjoint ==
    \A j \in 1..Len(entries) :
        ~ (IsAgentRaw(Item(entries[j])) /\ IsSimpleRaw(Item(entries[j])))

\* C12: the structured and the simple records together have
\* pairwise distinct record ids, and no entry contributes to both collections.
C12_RecordIdsDistinct ==
    pc = "fetched" =>
        /\ DistinctIds(agent_df \o simple_df)
        /\ BucketsDisjoint

\* C13: in a pass at most one job runs per metric family (the metric type of
\* the job, as written), for "simple" in particular; and once the two blocks
\* are over every family with a valid record has had its job.
C13_OneJobPerFamily ==
    /\ \A i, j \in 1..Len(jobs) :
          jobs[i].metric_type = jobs[j].metric_type => i = j
    /\ PastBlocks =>
          /\ \A f \in DueAgentFamilies :
                \E i \in 1..Len(jobs) :
                    jobs[i].block = "agent" /\ jobs[i].metric_type = f
          /\ SimpleJobDue => \E i \in 1..Len(jobs) : jobs[i].block = "simple"

\* the record ids of the input of a job
InputIds(job) == [k \in 1..Len(job.input) |-> job.input[k].session_id]

\* C14: every score table collected for the consolidation has a session_id
\* column with one id per row, the ids being those of the input of a job of
\* the pass; and the consolidation is never reached with a table that makes
\* it raise (a table without ids), whatever row count a job returned.
C14_CollectedTablesCarryIds ==
    /\ \A t \in 1..Len(all_metrics_dfs) :
          /\ all_metrics_dfs[t].has_session_id
          /\ Len(all_metrics_dfs[t].session_id) = all_metrics_dfs[t].n
          /\ \E i \in 1..Len(jobs) :
                all_metrics_dfs[t].session_id = InputIds(jobs[i])
    /\ pc = "consolidate" => ~ ConsolidationRaises(all_metrics_dfs)

\* C15: no record with an empty prompt or an empty response is in the input
\* of a job.
C15_NoEmptyPromptOrResponseScored ==
    \A i \in 1..Len(jobs) :
        \A k \in 1..Len(jobs[i].input) :
            /\ ~ IsNA(jobs[i].input[k].prompt)
            /\ ~ IsNA(jobs[i].input[k].response)

MappingShapes == { "dict", "json_payload" }
StringShapes == { "str", "text_payload" }
Placeholder == "message" :> Str(<< "Unsupported log entry type" >>)

\* the entries whose payload is a mapping, in arrival order
MappingEntries == SelectSeq(entries, LAMBDA e : e.shape \in MappingShapes)

Times == 0..(Day + MaxTicks)

\* C17: a pass that is not an all-time pass and has ended leaves no time t
\* between the bound it read and the bound it saved that its list_entries
\* call did not reach: an event with such a timestamp is in no window, as the
\* next pass starts at the saved bound.  (A pass that fetched no logs has
\* reached no time at all.)
C17_NoEventSkipped ==
    (pc = "done" /\ ~ all_time) =>
        \A t \in Times :
            (last_run <= t /\ t < timestampFile) =>
                (collected_at # NoTime /\ t <= collected_at)

====
